---- MODULE Spec2Model ----
(***************************************************************************)
(* A model of scripts/harvest.py: the text cleaner, the identifier         *)
(* generator, the category guesser, the row classifier (row_to_entry),     *)
(* the streaming table parser (TableParser) and the harvesting run (main). *)
(* Python strings are TLA+ strings; Len, SubSeq and \o act on them.        *)
(***************************************************************************)
EXTENDS Integers, Sequences, FiniteSets, TLC

(***************************************************************************)
(* Python str primitives used by the program.                              *)
(***************************************************************************)
Char(s, i) == SubSeq(s, i, i)

Digits == "0123456789"

UpperLetters == "ABCDEFGHIJKLMNOPQRSTUVWXYZ"

LowerLetters == "abcdefghijklmnopqrstuvwxyz"

IndexIn(alphabet, c) == CHOOSE i \in 1..Len(alphabet) : Char(alphabet, i) = c

IsIn(alphabet, c) == \E i \in 1..Len(alphabet) : Char(alphabet, i) = c

\* \d and [0-9] on the characters the model feeds
IsDigit(c) == IsIn(Digits, c)

\* \s
IsSpace(c) == c \in {" ", "\t", "\n"}

\* \w
IsWord(c) == IsDigit(c) \/ IsIn(UpperLetters, c) \/ IsIn(LowerLetters, c) \/ c = "_"

\* [a-z0-9]
IsSlugChar(c) == IsDigit(c) \/ IsIn(LowerLetters, c)

LowerChar(c) == IF IsIn(UpperLetters, c) THEN Char(LowerLetters, IndexIn(UpperLetters, c)) ELSE c

RECURSIVE LowerFrom(_, _)
LowerFrom(s, i) == IF i > Len(s) THEN "" ELSE LowerChar(Char(s, i)) \o LowerFrom(s, i + 1)

\* str.lower()
Lower(s) == LowerFrom(s, 1)

\* sub in s
Contains(sub, s) == \E i \in 1..(Len(s) - Len(sub) + 1) : SubSeq(s, i, i + Len(sub) - 1) = sub

\* s[:n]
Prefix(s, n) == SubSeq(s, 1, IF n < Len(s) THEN n ELSE Len(s))

RECURSIVE LStrip(_)
LStrip(s) == IF Len(s) > 0 /\ IsSpace(Char(s, 1)) THEN LStrip(SubSeq(s, 2, Len(s))) ELSE s

RECURSIVE RStrip(_)
RStrip(s) == IF Len(s) > 0 /\ IsSpace(Char(s, Len(s))) THEN RStrip(SubSeq(s, 1, Len(s) - 1)) ELSE s

\* str.strip()
Strip(s) == RStrip(LStrip(s))

RECURSIVE StripHyphens(_)
StripHyphens(s) ==
    IF Len(s) > 0 /\ Char(s, 1) = "-" THEN StripHyphens(SubSeq(s, 2, Len(s)))
    ELSE IF Len(s) > 0 /\ Char(s, Len(s)) = "-" THEN StripHyphens(SubSeq(s, 1, Len(s) - 1))
    ELSE s

RECURSIVE IntToStr(_)
\* str(n) for n >= 0
IntToStr(n) == IF n < 10 THEN Char(Digits, n + 1) ELSE IntToStr(n \div 10) \o Char(Digits, (n % 10) + 1)

RECURSIVE StrToInt(_)
\* int(s) for a string of decimal digits
StrToInt(s) ==
    IF Len(s) = 0 THEN 0
    ELSE 10 * StrToInt(SubSeq(s, 1, Len(s) - 1)) + (IndexIn(Digits, Char(s, Len(s))) - 1)

\* the end of the run of digits that starts at position i (i - 1 when there is none)
RECURSIVE DigitRunEnd(_, _)
DigitRunEnd(s, i) == IF i <= Len(s) /\ IsDigit(Char(s, i)) THEN DigitRunEnd(s, i + 1) ELSE i - 1

(***************************************************************************)
(* clean                                                                   *)
(***************************************************************************)
\* the last position of a match of \[\d+\] starting at i, or 0
MatchBracketInt(s, i) ==
    IF i <= Len(s) /\ Char(s, i) = "["
    THEN LET e == DigitRunEnd(s, i + 1)
         IN  IF e >= i + 1 /\ e + 1 <= Len(s) /\ Char(s, e + 1) = "]" THEN e + 1 ELSE 0
    ELSE 0

\* the last position of a match of \[note \d+\] starting at i, or 0
MatchBracketNote(s, i) ==
    IF i + 5 <= Len(s) /\ SubSeq(s, i, i + 5) = "[note "
    THEN LET e == DigitRunEnd(s, i + 6)
         IN  IF e >= i + 6 /\ e + 1 <= Len(s) /\ Char(s, e + 1) = "]" THEN e + 1 ELSE 0
    ELSE 0

\* the last position of a match of \[a\] starting at i, or 0
MatchBracketA(s, i) == IF i + 2 <= Len(s) /\ SubSeq(s, i, i + 2) = "[a]" THEN i + 2 ELSE 0

RECURSIVE SubBracketInt(_, _)
\* re.sub(r'\[\d+\]', '', s), scanning from position i
SubBracketInt(s, i) ==
    IF i > Len(s) THEN ""
    ELSE IF MatchBracketInt(s, i) > 0 THEN SubBracketInt(s, MatchBracketInt(s, i) + 1)
    ELSE Char(s, i) \o SubBracketInt(s, i + 1)

RECURSIVE SubBracketNote(_, _)
\* re.sub(r'\[note \d+\]', '', s), scanning from position i
SubBracketNote(s, i) ==
    IF i > Len(s) THEN ""
    ELSE IF MatchBracketNote(s, i) > 0 THEN SubBracketNote(s, MatchBracketNote(s, i) + 1)
    ELSE Char(s, i) \o SubBracketNote(s, i + 1)

RECURSIVE SubBracketA(_, _)
\* re.sub(r'\[a\]', '', s), scanning from position i
SubBracketA(s, i) ==
    IF i > Len(s) THEN ""
    ELSE IF MatchBracketA(s, i) > 0 THEN SubBracketA(s, MatchBracketA(s, i) + 1)
    ELSE Char(s, i) \o SubBracketA(s, i + 1)

RECURSIVE SpaceRunEnd(_, _)
SpaceRunEnd(s, i) == IF i <= Len(s) /\ IsSpace(Char(s, i)) THEN SpaceRunEnd(s, i + 1) ELSE i - 1

RECURSIVE SubSpaces(_, _)
\* re.sub(r'\s+', ' ', s), scanning from position i
SubSpaces(s, i) ==
    IF i > Len(s) THEN ""
    ELSE IF IsSpace(Char(s, i)) THEN " " \o SubSpaces(s, SpaceRunEnd(s, i) + 1)
    ELSE Char(s, i) \o SubSpaces(s, i + 1)

clean(text) == Strip(SubSpaces(SubBracketA(SubBracketNote(SubBracketInt(text, 1), 1), 1), 1))

(***************************************************************************)
(* slugify                                                                 *)
(***************************************************************************)
RECURSIVE NonSlugRunEnd(_, _)
NonSlugRunEnd(s, i) == IF i <= Len(s) /\ ~IsSlugChar(Char(s, i)) THEN NonSlugRunEnd(s, i + 1) ELSE i - 1

RECURSIVE SubNonSlug(_, _)
\* re.sub(r'[^a-z0-9]+', '-', s), scanning from position i
SubNonSlug(s, i) ==
    IF i > Len(s) THEN ""
    ELSE IF ~IsSlugChar(Char(s, i)) THEN "-" \o SubNonSlug(s, NonSlugRunEnd(s, i) + 1)
    ELSE Char(s, i) \o SubNonSlug(s, i + 1)

\* a variant that keeps the hyphens at both ends
slugifyNoStrip(text, year) == SubNonSlug(Lower(IntToStr(year) \o "-" \o Prefix(text, 40)), 1)

\* slugify(text, year) with an integer year
slugify(text, year) == StripHyphens(SubNonSlug(Lower(IntToStr(year) \o "-" \o Prefix(text, 40)), 1))

(***************************************************************************)
(* guess_category                                                          *)
(***************************************************************************)
VALID_CATEGORIES ==
    << "Economic Collapse", "Tech Apocalypse", "Environmental Doom", "Political Catastrophe",
       "Health Crisis", "Social Breakdown", "Food & Resource Scarcity", "War & Conflict" >>

\* CATEGORY_KEYWORDS[VALID_CATEGORIES[i]] is CATEGORY_KEYWORDS[i]; the dict's
\* insertion order is the order of VALID_CATEGORIES
CATEGORY_KEYWORDS ==
    << << "economy", "financial", "stock", "crash", "bank", "depression", "debt", "dollar",
          "inflation", "recession" >>,
       << "computer", "internet", "ai", "robot", "nuclear plant", "technology", "software",
          "cyber", "y2k" >>,
       << "climate", "ozone", "pollution", "asteroid", "comet", "flood", "ice age", "warming",
          "cooling", "sea level", "extinction", "biodiversity" >>,
       << "war", "election", "government", "fascism", "communism", "dictatorship", "coup",
          "democracy" >>,
       << "pandemic", "plague", "virus", "disease", "epidemic", "flu", "cancer", "aids",
          "ebola", "bacteria" >>,
       << "crime", "drugs", "violence", "moral", "youth", "media", "society", "culture" >>,
       << "food", "famine", "hunger", "water", "oil", "energy", "resource", "population",
          "starvation" >>,
       << "nuclear war", "world war", "armageddon", "invasion", "missile", "bomb", "military" >> >>

\* scores[cat] after the two loops, on the lowercased text
Score(lowered, c) ==
    Cardinality({k \in 1..Len(CATEGORY_KEYWORDS[c]) : Contains(CATEGORY_KEYWORDS[c][k], lowered)})

RECURSIVE ScoresFrom(_, _)
\* the scores of the categories c, c + 1, ..., in dict order
ScoresFrom(lowered, c) ==
    IF c > Len(VALID_CATEGORIES) THEN << >>
    ELSE << Score(lowered, c) >> \o ScoresFrom(lowered, c + 1)

\* a variant that takes the last key with the largest value
ArgMaxLast(scores) ==
    CHOOSE c \in DOMAIN scores :
        /\ \A d \in DOMAIN scores : scores[d] <= scores[c]
        /\ \A d \in DOMAIN scores : d > c => scores[d] < scores[c]

\* max(scores, key=scores.get): the first key, in dict order, with the largest value
ArgMaxFirst(scores) ==
    CHOOSE c \in DOMAIN scores :
        /\ \A d \in DOMAIN scores : scores[d] <= scores[c]
        /\ \A d \in DOMAIN scores : d < c => scores[d] < scores[c]

\* a variant without the fallback for a text that scores nothing
guess_categoryNoFallback(text) ==
    LET lowered == Lower(text)
        scores == ScoresFrom(lowered, 1)
    IN  VALID_CATEGORIES[ArgMaxFirst(scores)]

guess_category(text) ==
    LET lowered == Lower(text)
        scores == ScoresFrom(lowered, 1)
        best == ArgMaxFirst(scores)
    IN  IF scores[best] > 0 THEN VALID_CATEGORIES[best] ELSE "Political Catastrophe"

(***************************************************************************)
(* row_to_entry                                                            *)
(***************************************************************************)
\* the value returned for an unusable row
None == [rejected |-> TRUE]

HEADER_WORDS == << "date", "year", "century", "event", "prediction" >>

\* U+2014 (em dash) in the tuple of low-information outcomes; written with a
\* character no modelled input holds
EM_DASH == "~"

LOW_INFO == { "no", "yes", "none", "n/a", EM_DASH, "-" }

\* whether \b(1[0-9]{3}|20[0-2][0-9])\b matches at position i of s
YearMatchAt(s, i) ==
    /\ i + 3 <= Len(s)
    /\ \/ /\ Char(s, i) = "1"
          /\ IsDigit(Char(s, i + 1)) /\ IsDigit(Char(s, i + 2)) /\ IsDigit(Char(s, i + 3))
       \/ /\ SubSeq(s, i, i + 1) = "20"
          /\ Char(s, i + 2) \in {"0", "1", "2"}
          /\ IsDigit(Char(s, i + 3))
    /\ (i = 1 \/ ~IsWord(Char(s, i - 1)))
    /\ (i + 3 = Len(s) \/ ~IsWord(Char(s, i + 4)))

\* re.search: the leftmost match, 0 for no match
YearSearch(s) ==
    IF \E i \in 1..Len(s) : YearMatchAt(s, i)
    THEN CHOOSE i \in 1..Len(s) : YearMatchAt(s, i) /\ \A j \in 1..(i - 1) : ~YearMatchAt(s, j)
    ELSE 0

\* a variant that tries the suffix -1 once instead of looping
UniqueIdOnce(entry_id, base_id, counter, ids) ==
    IF entry_id \in ids THEN base_id \o "-" \o IntToStr(counter) ELSE entry_id

RECURSIVE UniqueId(_, _, _, _)
\* the while loop of lines 193-195, entered with entry_id and counter
UniqueId(entry_id, base_id, counter, ids) ==
    IF entry_id \in ids
    THEN UniqueId(base_id \o "-" \o IntToStr(counter), base_id, counter + 1, ids)
    ELSE entry_id

\* line 158: the first cell marks a header row
IsHeader(cell) == \E h \in 1..Len(HEADER_WORDS) : Contains(HEADER_WORDS[h], Lower(cell))

\* a variant that lets the year 2026 through
NotInPastOffByOne(year) == year > 2026

\* line 172: the year is not in the past
NotInPast(year) == year >= 2026

\* a variant that also rejects predictions of exactly 15 characters
TooShortOffByOne(prediction) == prediction = "" \/ Len(prediction) <= 15

\* line 185: the prediction holds too little text
TooShort(prediction) == prediction = "" \/ Len(prediction) < 15

\* a variant whose fallback year is year + 5 for every year
RealityNoCap(outcome, year) ==
    IF outcome # "" /\ Len(outcome) > 20 /\ Lower(outcome) \notin LOW_INFO
    THEN outcome
    ELSE "The predicted event did not occur as described by " \o IntToStr(year + 5) \o "."

\* a variant that keeps every non-empty outcome, whatever its length
RealityAnyOutcome(outcome, year) ==
    IF outcome # "" /\ Lower(outcome) \notin LOW_INFO
    THEN outcome
    ELSE "The predicted event did not occur as described by "
            \o IntToStr(IF year < 2020 THEN year + 5 ELSE 2025) \o "."

\* the reality field
Reality(outcome, year) ==
    IF outcome # "" /\ Len(outcome) > 20 /\ Lower(outcome) \notin LOW_INFO
    THEN outcome
    ELSE "The predicted event did not occur as described by "
            \o IntToStr(IF year < 2020 THEN year + 5 ELSE 2025) \o "."

\* a variant without the test for an empty claimant
SourceNoEmptyTest(claimant, prediction) ==
    IF claimant # prediction THEN claimant ELSE "Unknown"

\* the source field
Source(claimant, prediction) ==
    IF claimant # "" /\ claimant # prediction THEN claimant ELSE "Unknown"

\* the entry built once the row has passed every check (lines 188-217)
BuildEntry(year, claimant, prediction, outcome, hint_in, ids) ==
    LET base_id == slugify(claimant \o "-" \o Prefix(prediction, 20), year)
    IN  [ id |-> UniqueId(base_id, base_id, 1, ids),
          year |-> year,
          prediction |-> prediction,
          source |-> Source(claimant, prediction),
          reality |-> Reality(outcome, year),
          category |-> guess_category(prediction \o " " \o outcome \o " " \o hint_in),
          tags |-> << >>,
          harvested |-> TRUE ]

RECURSIVE CleanAll(_)
\* [clean(c) for c in row]
CleanAll(row) == IF Len(row) = 0 THEN << >> ELSE << clean(Head(row)) >> \o CleanAll(Tail(row))

row_to_entry(cells_in, hint_in, ids) ==
    IF Len(cells_in) < 3 THEN None
    ELSE
    LET cells == CleanAll(cells_in)
    IN  IF IsHeader(cells[1]) THEN None
        ELSE IF Len(cells) < 3 \/ cells[1] = "" THEN None
        ELSE
        LET m == YearSearch(cells[1])
        IN  IF m = 0 THEN None
            ELSE
            LET year == StrToInt(SubSeq(cells[1], m, m + 3))
            IN  IF NotInPast(year) THEN None
                ELSE
                LET claimant == cells[2]
                    prediction == IF Len(cells) >= 4 THEN cells[3] ELSE cells[2]
                    outcome == IF Len(cells) >= 4 THEN cells[4] ELSE cells[3]
                IN  IF TooShort(prediction) THEN None
                    ELSE BuildEntry(year, claimant, prediction, outcome, hint_in, ids)

(***************************************************************************)
(* State.  Each specification below drives one part of the program and     *)
(* leaves the variables of the other parts at their idle values.           *)
(***************************************************************************)
VARIABLES
    \* one call of row_to_entry: its arguments, its position, its return value
    c_row, c_hint, c_known, c_pc, c_entry,
    \* one call of clean: its argument, its position, its return value
    t_text, t_pc, t_out,
    \* one call of guess_category: its argument, its position, its return value
    g_text, g_pc, g_out,
    \* main: args.write, args.limit, the parsed target list and the loop index
    write, limit, targets, ti,
    \* main: db["entries"], existing_ids, new_entries
    db, existing_ids, new_entries,
    \* main: the number of tables of the current document entered so far, and the
    \* position in main
    tbl, pc,
    \* the contents of data/doom.json and the number of times it was written
    file, writes,
    \* the number of rows the documents of the run may still yield
    budget,
    \* the lines main printed: the outcome of each fetch, the limit notice and the
    \* closing report
    stdout,
    \* the document handed to extract_tables and the parser events still to come
    doc, feed,
    \* TableParser: tables, _current_table, _current_row, _current_cell, _depth
    p_tables, current_table, current_row, current_cell, depth,
    \* the position in extract_tables
    p_pc

classifyVars == << c_row, c_hint, c_known, c_pc, c_entry >>

cleanVars == << t_text, t_pc, t_out >>

guessVars == << g_text, g_pc, g_out >>

mainVars == << write, limit, targets, ti, db, existing_ids, new_entries, tbl, pc, file, writes,
               budget, stdout >>

parserVars == << doc, feed, p_tables, current_table, current_row, current_cell, depth, p_pc >>

vars == << classifyVars, cleanVars, guessVars, mainVars, parserVars >>

IdleClassify ==
    c_row = << >> /\ c_hint = "" /\ c_known = {} /\ c_pc = "idle" /\ c_entry = None

IdleClean == t_text = "" /\ t_pc = "idle" /\ t_out = ""

IdleGuess == g_text = "" /\ g_pc = "idle" /\ g_out = ""

IdleMain ==
    /\ write = FALSE /\ limit = 0 /\ targets = << >> /\ ti = 1
    /\ db = << >> /\ existing_ids = {} /\ new_entries = << >>
    /\ tbl = 0 /\ pc = "idle"
    /\ file = << >> /\ writes = 0 /\ budget = 0 /\ stdout = << >>

IdleParser ==
    /\ doc = << >> /\ feed = << >> /\ p_tables = << >> /\ current_table = << >>
    /\ current_row = << >> /\ current_cell = << >> /\ depth = 0 /\ p_pc = "idle"

(***************************************************************************)
(* The row classifier on its own: one call of row_to_entry per behaviour.  *)
(***************************************************************************)
\* the longest row fed to the classifier
MaxCells == 4

FirstCells ==
    { "", "1999", "2030", "2025", "2026", "2029", "1000", "999", "Year", "1999 event",
      "c. 1999[1]", "2027 or 1999", "1999 or 2027", "19999", "x1999", "[2001]", "2020" }

SecondCells ==
    { "", "Ravi Batra", "John Smith[2]", "Unknown", "The world will end in fire", "Too short" }

ThirdCells ==
    { "", "The US economy will collapse by 2000 due to debt", "The world will end in fire",
      "exactly15chars!", "fourteen chars", "The  sky[1] falls" }

FourthCells ==
    { "", "It did not happen", "The economy kept growing through 2000",
      "It did not happen!!!", "It did not happen!!!!", "Nothing[1] of the  kind took place" }

CellChoices(i) ==
    IF i = 1 THEN FirstCells
    ELSE IF i = 2 THEN SecondCells
    ELSE IF i = 3 THEN ThirdCells
    ELSE IF i = 4 THEN FourthCells
    ELSE { "extra" }

\* every row of at most m cells whose i-th cell is one of CellChoices(i)
ClassifyRows(m) ==
    UNION { { r \in [1..n -> FirstCells \cup SecondCells \cup ThirdCells \cup FourthCells \cup {"extra"}] :
                \A i \in 1..n : r[i] \in CellChoices(i) } : n \in 0..m }

\* rows of the same year and claimant whose base slugs collide or nest
RowBase == << "2001", "Bo", "the end is nigh", "-" >>

RowSameBase == << "2001", "Bo", "The End is nigh!", "no" >>

RowSuffixBase == << "2001", "Bo", "the end is nigh 1", "" >>

RowHeader == << "Year", "Claimant", "Prediction", "Outcome" >>

RowPool == << RowBase, RowSameBase, RowSuffixBase, RowHeader >>

ClassifyHints == { "", "nuclear war List_of_predictions" }

IdPool ==
    { "2001-bo-the-end-is-nigh", "2001-bo-the-end-is-nigh-1", "2001-bo-the-end-is-nigh-2",
      "2001-bo-the-end-is-nigh-1-1", "2001-bo-the-end-is-nigh-3" }

\* the rows of the documented scenarios
ScenarioRows ==
    { << "Year", "Prediction", "Outcome" >>,
      << "2030", "X", "Something will happen to the world" >> }

ClassifyInputs(m) ==
    ((ClassifyRows(m) \cup ScenarioRows) \X {""} \X {{}})
        \cup ({RowPool[i] : i \in 1..Len(RowPool)} \X ClassifyHints \X SUBSET IdPool)

InitClassify ==
    /\ \E in \in ClassifyInputs(MaxCells) : c_row = in[1] /\ c_hint = in[2] /\ c_known = in[3]
    /\ c_pc = "call"
    /\ c_entry = None
    /\ IdleClean /\ IdleGuess /\ IdleMain /\ IdleParser

\* a variant in which row_to_entry adds the id it made to the set it was given
ClassifyAddsId ==
    /\ c_pc = "call"
    /\ c_entry' = row_to_entry(c_row, c_hint, c_known)
    /\ c_known' = IF c_entry' = None THEN c_known ELSE c_known \cup {c_entry'.id}
    /\ c_pc' = "returned"
    /\ UNCHANGED << c_row, c_hint, cleanVars, guessVars, mainVars, parserVars >>

\* entry = row_to_entry(row, hint, known)
Classify ==
    /\ c_pc = "call"
    /\ c_entry' = row_to_entry(c_row, c_hint, c_known)
    /\ c_pc' = "returned"
    /\ UNCHANGED << c_row, c_hint, c_known, cleanVars, guessVars, mainVars, parserVars >>

NextClassify == Classify

SpecClassify == InitClassify /\ [][NextClassify]_vars

(***************************************************************************)
(* The row classifier called twice on the same row, hint and known ids,    *)
(* nothing being recorded between the calls.                               *)
(***************************************************************************)
RepeatInputs ==
    (({RowPool[i] : i \in 1..Len(RowPool)} \cup ScenarioRows) \X ClassifyHints \X SUBSET IdPool)

InitRepeat ==
    /\ \E in \in RepeatInputs : c_row = in[1] /\ c_hint = in[2] /\ c_known = in[3]
    /\ c_pc = "call"
    /\ c_entry = None
    /\ IdleClean /\ IdleGuess /\ IdleMain /\ IdleParser

\* entry = row_to_entry(row, hint, known), once more with the objects of the first call
ClassifyAgain ==
    /\ c_pc = "returned"
    /\ c_entry' = row_to_entry(c_row, c_hint, c_known)
    /\ c_pc' = "again"
    /\ UNCHANGED << c_row, c_hint, c_known, cleanVars, guessVars, mainVars, parserVars >>

NextRepeat == Classify \/ ClassifyAgain

SpecRepeat == InitRepeat /\ [][NextRepeat]_vars

(***************************************************************************)
(* The text cleaner on its own: one call of clean per behaviour.           *)
(***************************************************************************)
\* the number of pieces an input text is made of
MaxPieces == 3

CleanPieces ==
    { "[1]", "[12]", "[note 2]", "[a]", "[b]", "[", "]", " ", "\t", "x", "7", "a", "note " }

RECURSIVE Concat(_)
Concat(pieces) == IF Len(pieces) = 0 THEN "" ELSE Head(pieces) \o Concat(Tail(pieces))

\* the texts made of at most m pieces
CleanInputs(m) == { Concat(q) : q \in UNION { [1..n -> CleanPieces] : n \in 0..m } }

InitClean ==
    /\ t_text \in CleanInputs(MaxPieces)
    /\ t_pc = "call"
    /\ t_out = ""
    /\ IdleClassify /\ IdleGuess /\ IdleMain /\ IdleParser

\* out = clean(text)
Clean ==
    /\ t_pc = "call"
    /\ t_out' = clean(t_text)
    /\ t_pc' = "returned"
    /\ UNCHANGED << t_text, classifyVars, guessVars, mainVars, parserVars >>

NextClean == Clean

SpecClean == InitClean /\ [][NextClean]_vars

(***************************************************************************)
(* The category guesser on its own: one call of guess_category per         *)
(* behaviour.                                                              *)
(***************************************************************************)
\* the number of pieces an input text is made of
MaxWords == 3

GuessPieces ==
    { " ", "war", "WAR", "economy", "nuclear", "Debt", "flu", "oil", "xyz", "a", "i", "bomb" }

\* the texts made of at most m pieces
GuessInputs(m) == { Concat(q) : q \in UNION { [1..n -> GuessPieces] : n \in 0..m } }

InitGuess ==
    /\ g_text \in GuessInputs(MaxWords)
    /\ g_pc = "call"
    /\ g_out = ""
    /\ IdleClassify /\ IdleClean /\ IdleMain /\ IdleParser

\* out = guess_category(text)
Guess ==
    /\ g_pc = "call"
    /\ g_out' = guess_category(g_text)
    /\ g_pc' = "returned"
    /\ UNCHANGED << g_text, classifyVars, cleanVars, mainVars, parserVars >>

NextGuess == Guess

SpecGuess == InitGuess /\ [][NextGuess]_vars

(***************************************************************************)
(* main: the harvesting run.  The documents are the environment's: a fetch *)
(* fails or succeeds, and the tables and rows of a fetched document are    *)
(* drawn as the two for loops reach them.                                  *)
(***************************************************************************)
\* the number of rows the documents of one run hold together
MaxRows == 3

\* the number of tables one document holds
MaxTables == 2

\* the (title, hint) pairs parse_curator returned
Targets ==
    << [title |-> "Doom", hint |-> "war"],
       [title |-> "Y2K", hint |-> ""] >>

Limits == { 0, 1, 2 }

\* an entry already in data/doom.json, with the one field main reads
Stored(id) == [id |-> id]

\* the stores a run may start from, the ids of each pairwise distinct
Stores ==
    { << >>,
      << Stored("2001-bo-the-end-is-nigh") >>,
      << Stored("2001-bo-the-end-is-nigh-1"), Stored("1999-x") >> }

IdsOf(entries) == { entries[i].id : i \in 1..Len(entries) }

\* a variant that passes only the ids of the entries found in this run
KnownIdsNewOnly(loaded, found) == IdsOf(found)

\* line 278: existing_ids | {e["id"] for e in new_entries}
KnownIds(loaded, found) == loaded \cup IdsOf(found)

\* a variant that stops one entry late
LimitReachedOffByOne(found) == limit # 0 /\ Len(found) > limit

\* args.limit and len(new_entries) >= args.limit
LimitReached(found) == limit # 0 /\ Len(found) >= limit

\* line 270, the count of tables left out: the tables are drawn as the loop reaches them
FetchedLine(title) == "Fetching: " \o title \o " ... table(s) found"

\* line 272
ErrorLine(title) == "Fetching: " \o title \o " ... ERROR"

\* line 289
LimitLine == "Limit of " \o IntToStr(limit) \o " reached."

\* line 292
FoundLine(n) == "Found " \o IntToStr(n) \o " new entries"

\* line 295
NothingLine == "Nothing to add."

\* line 309
WroteLine(n) == "Wrote " \o IntToStr(n) \o " entries"

\* line 314
DryRunLine == "Dry run - nothing written. Add --write to save."

\* lines 247-263: the store is loaded, the targets parsed, nothing found yet
Init ==
    /\ write \in BOOLEAN
    /\ limit \in Limits
    /\ targets = Targets
    /\ ti = 1
    /\ db \in Stores
    /\ existing_ids = IdsOf(db)
    /\ new_entries = << >>
    /\ tbl = 0
    /\ pc = "fetch"
    /\ file = db
    /\ writes = 0
    /\ budget = MaxRows
    /\ stdout = << >>
    /\ IdleClassify /\ IdleClean /\ IdleGuess /\ IdleParser

\* lines 265-270: the next target's document is fetched and its tables extracted
FetchOk ==
    /\ pc = "fetch" /\ ti <= Len(targets)
    /\ pc' = "tables"
    /\ tbl' = 0
    /\ stdout' = Append(stdout, FetchedLine(targets[ti].title))
    /\ UNCHANGED << write, limit, targets, ti, db, existing_ids, new_entries, file, writes, budget >>
    /\ UNCHANGED << classifyVars, cleanVars, guessVars, parserVars >>

\* a variant in which a failed fetch ends the loop over the targets
FetchFailAborts ==
    /\ pc = "fetch" /\ ti <= Len(targets)
    /\ pc' = "report"
    /\ stdout' = Append(stdout, ErrorLine(targets[ti].title))
    /\ UNCHANGED << write, limit, targets, ti, db, existing_ids, new_entries, tbl, file, writes,
                    budget >>
    /\ UNCHANGED << classifyVars, cleanVars, guessVars, parserVars >>

\* lines 271-274: wiki_fetch_html or extract_tables raised; the target is skipped
FetchFail ==
    /\ pc = "fetch" /\ ti <= Len(targets)
    /\ ti' = ti + 1
    /\ stdout' = Append(stdout, ErrorLine(targets[ti].title))
    /\ UNCHANGED << write, limit, targets, db, existing_ids, new_entries, tbl, pc, file, writes,
                    budget >>
    /\ UNCHANGED << classifyVars, cleanVars, guessVars, parserVars >>

\* line 276: the outer loop yields the document's next table
EnterTable ==
    /\ pc = "tables" /\ tbl < MaxTables
    /\ tbl' = tbl + 1
    /\ pc' = "rows"
    /\ UNCHANGED << write, limit, targets, ti, db, existing_ids, new_entries, file, writes, budget,
                    stdout >>
    /\ UNCHANGED << classifyVars, cleanVars, guessVars, parserVars >>

\* lines 277-285 and 287-290: the inner loop yields the row r, which is classified;
\* an accepted entry is recorded, and reaching the limit leaves all three loops
ClassifyRow(r) ==
    /\ pc = "rows" /\ budget > 0
    /\ budget' = budget - 1
    /\ LET entry == row_to_entry(r, targets[ti].hint \o " " \o targets[ti].title,
                                 KnownIds(existing_ids, new_entries))
       IN  IF entry # None
           THEN /\ new_entries' = Append(new_entries, entry)
                /\ existing_ids' = existing_ids \cup {entry.id}
                /\ pc' = IF LimitReached(new_entries') THEN "report" ELSE "rows"
                /\ stdout' = IF LimitReached(new_entries')
                              THEN Append(stdout, LimitLine) ELSE stdout
           ELSE UNCHANGED << new_entries, existing_ids, pc, stdout >>
    /\ UNCHANGED << write, limit, targets, ti, db, tbl, file, writes >>
    /\ UNCHANGED << classifyVars, cleanVars, guessVars, parserVars >>

\* line 277 exhausted, then lines 284-285 (and 287-290 when the limit is reached)
EndTable ==
    /\ pc = "rows"
    /\ pc' = IF LimitReached(new_entries) THEN "report" ELSE "tables"
    /\ stdout' = IF LimitReached(new_entries) THEN Append(stdout, LimitLine) ELSE stdout
    /\ UNCHANGED << write, limit, targets, ti, db, existing_ids, new_entries, tbl, file, writes,
                    budget >>
    /\ UNCHANGED << classifyVars, cleanVars, guessVars, parserVars >>

\* line 276 exhausted, then lines 287-290
EndDoc ==
    /\ pc = "tables"
    /\ IF LimitReached(new_entries)
       THEN pc' = "report" /\ ti' = ti /\ stdout' = Append(stdout, LimitLine)
       ELSE pc' = "fetch" /\ ti' = ti + 1 /\ stdout' = stdout
    /\ UNCHANGED << write, limit, targets, db, existing_ids, new_entries, tbl, file, writes,
                    budget >>
    /\ UNCHANGED << classifyVars, cleanVars, guessVars, parserVars >>

\* line 265 exhausted
TargetsDone ==
    /\ pc = "fetch" /\ ti > Len(targets)
    /\ pc' = "report"
    /\ UNCHANGED << write, limit, targets, ti, db, existing_ids, new_entries, tbl, file, writes,
                    budget, stdout >>
    /\ UNCHANGED << classifyVars, cleanVars, guessVars, parserVars >>

\* a variant that returns before printing the count when nothing was found
ReportSkipsEmptyCount ==
    /\ pc = "report"
    /\ pc' = "done"
    /\ IF new_entries # << >> /\ write
       THEN /\ db' = db \o new_entries
            /\ file' = db'
            /\ writes' = writes + 1
       ELSE UNCHANGED << db, file, writes >>
    /\ stdout' = IF new_entries = << >> THEN Append(stdout, NothingLine)
                  ELSE stdout \o << FoundLine(Len(new_entries)),
                                    IF write THEN WroteLine(Len(new_entries)) ELSE DryRunLine >>
    /\ UNCHANGED << write, limit, targets, ti, existing_ids, new_entries, tbl, budget >>
    /\ UNCHANGED << classifyVars, cleanVars, guessVars, parserVars >>

\* a variant that writes the collection back whenever --write is given
ReportWritesAlways ==
    /\ pc = "report"
    /\ pc' = "done"
    /\ IF write
       THEN /\ db' = db \o new_entries
            /\ file' = db'
            /\ writes' = writes + 1
       ELSE UNCHANGED << db, file, writes >>
    /\ stdout' = stdout \o << FoundLine(Len(new_entries)),
                               IF new_entries = << >> THEN NothingLine
                               ELSE IF write THEN WroteLine(Len(new_entries))
                               ELSE DryRunLine >>
    /\ UNCHANGED << write, limit, targets, ti, existing_ids, new_entries, tbl, budget >>
    /\ UNCHANGED << classifyVars, cleanVars, guessVars, parserVars >>

\* lines 292-314: the count is reported and, with --write and something found, the
\* whole collection is written back
Report ==
    /\ pc = "report"
    /\ pc' = "done"
    /\ IF new_entries # << >> /\ write
       THEN /\ db' = db \o new_entries
            /\ file' = db'
            /\ writes' = writes + 1
       ELSE UNCHANGED << db, file, writes >>
    /\ stdout' = stdout \o << FoundLine(Len(new_entries)),
                               IF new_entries = << >> THEN NothingLine
                               ELSE IF write THEN WroteLine(Len(new_entries))
                               ELSE DryRunLine >>
    /\ UNCHANGED << write, limit, targets, ti, existing_ids, new_entries, tbl, budget >>
    /\ UNCHANGED << classifyVars, cleanVars, guessVars, parserVars >>

Next ==
    \/ FetchOk
    \/ FetchFail
    \/ EnterTable
    \/ \E i \in 1..Len(RowPool) : ClassifyRow(RowPool[i])
    \/ EndTable
    \/ EndDoc
    \/ TargetsDone
    \/ Report

Spec == Init /\ [][Next]_vars

\* main is one sequential thread and nothing in it waits on another party: a fetch
\* returns or raises (the timeout of line 77), a for loop over a finite list comes to
\* its end, and the report follows the loops
SpecLive ==
    /\ Init /\ [][Next]_vars
    /\ WF_vars(FetchOk \/ FetchFail)
    /\ WF_vars(EndTable)
    /\ WF_vars(EndDoc)
    /\ WF_vars(TargetsDone)
    /\ WF_vars(Report)

(***************************************************************************)
(* TableParser and extract_tables.  html.parser turns the markup into the  *)
(* calls handle_starttag, handle_endtag and handle_data; the model feeds   *)
(* the parser that sequence of events.  A field that is None or a list is  *)
(* Nil or Some(list).                                                      *)
(***************************************************************************)
Nil == << >>

Some(x) == << x >>

Val(o) == o[1]

StartEv(tag) == [t |-> "start", v |-> tag]

EndEv(tag) == [t |-> "end", v |-> tag]

DataEv(text) == [t |-> "data", v |-> text]

\* line 99
OpensRow(tag, d) == tag = "tr" /\ d = 1

\* line 101
OpensCell(tag, d, row) == tag \in {"td", "th"} /\ d = 1 /\ row # Nil

\* a variant that closes a row at any depth
ClosesRowAnyDepth(tag, d) == tag = "tr"

\* line 110
ClosesRow(tag, d) == tag = "tr" /\ d = 1

\* line 114
ClosesCell(tag, d) == tag \in {"td", "th"} /\ d = 1

RECURSIVE Join(_, _)
\* sep.join(parts)
Join(sep, parts) ==
    IF Len(parts) = 0 THEN ""
    ELSE IF Len(parts) = 1 THEN Head(parts)
    ELSE Head(parts) \o sep \o Join(sep, Tail(parts))

\* a variant that joins the fragments without a separator
CellTextNoSpace(fragments) == Strip(Join("", fragments))

\* line 116: " ".join(self._current_cell).strip()
CellText(fragments) == Strip(Join(" ", fragments))

\* line 111: self._current_row and self._current_table is not None
KeepsRow(row, table) == row # Nil /\ Len(Val(row)) > 0 /\ table # Nil

handle_starttag(tag) ==
    IF tag = "table"
    THEN /\ depth' = depth + 1
         /\ current_table' = IF depth + 1 = 1 THEN Some(<< >>) ELSE current_table
         /\ UNCHANGED << current_row, current_cell, p_tables >>
    ELSE IF OpensRow(tag, depth)
    THEN /\ current_row' = Some(<< >>)
         /\ UNCHANGED << depth, current_table, current_cell, p_tables >>
    ELSE IF OpensCell(tag, depth, current_row)
    THEN /\ current_cell' = Some(<< >>)
         /\ UNCHANGED << depth, current_table, current_row, p_tables >>
    ELSE UNCHANGED << depth, current_table, current_row, current_cell, p_tables >>

handle_endtag(tag) ==
    IF tag = "table"
    THEN /\ IF depth = 1 /\ current_table # Nil
            THEN /\ p_tables' = Append(p_tables, Val(current_table))
                 /\ current_table' = Nil
            ELSE UNCHANGED << p_tables, current_table >>
         /\ depth' = depth - 1
         /\ UNCHANGED << current_row, current_cell >>
    ELSE IF ClosesRow(tag, depth)
    THEN /\ current_table' = IF KeepsRow(current_row, current_table)
                             THEN Some(Append(Val(current_table), Val(current_row)))
                             ELSE current_table
         /\ current_row' = Nil
         /\ UNCHANGED << depth, current_cell, p_tables >>
    ELSE IF ClosesCell(tag, depth)
    THEN /\ current_row' = IF current_cell # Nil /\ current_row # Nil
                           THEN Some(Append(Val(current_row), CellText(Val(current_cell))))
                           ELSE current_row
         /\ current_cell' = Nil
         /\ UNCHANGED << depth, current_table, p_tables >>
    ELSE UNCHANGED << depth, current_table, current_row, current_cell, p_tables >>

handle_data(data) ==
    /\ current_cell' = IF current_cell # Nil /\ Strip(data) # ""
                       THEN Some(Append(Val(current_cell), Strip(data)))
                       ELSE current_cell
    /\ UNCHANGED << depth, current_table, current_row, p_tables >>

\* TableParser(): lines 86-92
NewParser ==
    /\ p_tables = << >> /\ current_table = Nil /\ current_row = Nil /\ current_cell = Nil
    /\ depth = 0

\* parser.feed reaches an opening tag
FeedStartTag ==
    /\ p_pc = "feed" /\ feed # << >> /\ Head(feed).t = "start"
    /\ handle_starttag(Head(feed).v)
    /\ feed' = Tail(feed)
    /\ UNCHANGED << doc, p_pc, classifyVars, cleanVars, guessVars, mainVars >>

\* parser.feed reaches a closing tag
FeedEndTag ==
    /\ p_pc = "feed" /\ feed # << >> /\ Head(feed).t = "end"
    /\ handle_endtag(Head(feed).v)
    /\ feed' = Tail(feed)
    /\ UNCHANGED << doc, p_pc, classifyVars, cleanVars, guessVars, mainVars >>

\* parser.feed reaches text
FeedData ==
    /\ p_pc = "feed" /\ feed # << >> /\ Head(feed).t = "data"
    /\ handle_data(Head(feed).v)
    /\ feed' = Tail(feed)
    /\ UNCHANGED << doc, p_pc, classifyVars, cleanVars, guessVars, mainVars >>

\* line 128: return parser.tables
ReturnTables ==
    /\ p_pc = "feed" /\ feed = << >>
    /\ p_pc' = "returned"
    /\ UNCHANGED << doc, feed, p_tables, current_table, current_row, current_cell, depth >>
    /\ UNCHANGED << classifyVars, cleanVars, guessVars, mainVars >>

NextParser == FeedStartTag \/ FeedEndTag \/ FeedData \/ ReturnTables

(***************************************************************************)
(* Well-formed documents: a document is a sequence of tables, a table a    *)
(* sequence of rows, a row a sequence of cells, a cell a kind (td or th)   *)
(* and a sequence of items: text, a void tag, or a nested table.           *)
(***************************************************************************)
\* the number of tables, rows and cells a document holds together
MaxElems == 6

Txt(text) == [k |-> "text", s |-> text, rows |-> << >>]

Tag(name) == [k |-> "tag", s |-> name, rows |-> << >>]

Tab(rows) == [k |-> "table", s |-> "", rows |-> rows]

SimpleCells ==
    { [kind |-> "td", items |-> << >>],
      [kind |-> "td", items |-> << Txt(" b "), Tag("br"), Txt("c d") >>],
      [kind |-> "td", items |-> << Txt(" \t"), Txt("e") >>],
      [kind |-> "th", items |-> << Txt("h") >>] }

RECURSIVE SeqsWithin(_, _, _)
\* the sequences of elements, each of cost >= 1, whose costs add up to at most b
SeqsWithin(Elems(_), Cost(_), b) ==
    { << >> } \cup
        UNION { { << e >> \o r : r \in SeqsWithin(Elems, Cost, b - Cost(e)) } : e \in Elems(b) }

RECURSIVE SumCost(_, _)
SumCost(Cost(_), q) == IF Len(q) = 0 THEN 0 ELSE Cost(Head(q)) + SumCost(Cost, Tail(q))

InnerCellCost(c) == 1

InnerCells(b) == IF b >= 1 THEN SimpleCells ELSE {}

InnerRowCost(r) == 1 + Len(r)

InnerRows(b) == IF b >= 1 THEN SeqsWithin(InnerCells, InnerCellCost, b - 1) ELSE {}

InnerTableCost(t) == 1 + SumCost(InnerRowCost, t)

InnerTables(b) == IF b >= 1 THEN SeqsWithin(InnerRows, InnerRowCost, b - 1) ELSE {}

ItemCost(it) == IF it.k = "table" THEN InnerTableCost(it.rows) ELSE 0

CellCost(c) == 1 + SumCost(ItemCost, c.items)

\* the cells of cost at most b: the simple ones, and those that hold a nested table
Cells(b) ==
    IF b >= 1
    THEN SimpleCells \cup
            { [kind |-> "td", items |-> << Txt("o"), Tab(t), Txt("p") >>] :
                t \in (IF b >= 2 THEN InnerTables(b - 1) ELSE {}) }
    ELSE {}

RowCost(r) == 1 + SumCost(CellCost, r)

Rows(b) == IF b >= 1 THEN SeqsWithin(Cells, CellCost, b - 1) ELSE {}

TableCost(t) == 1 + SumCost(RowCost, t)

Tables(b) == IF b >= 1 THEN SeqsWithin(Rows, RowCost, b - 1) ELSE {}

\* the documents that hold at most b tables, rows and cells together
Docs(b) == SeqsWithin(Tables, TableCost, b)

RECURSIVE Flatten(_, _)
\* the concatenation of Ev(x) for the elements x of q
Flatten(Ev(_), q) == IF Len(q) = 0 THEN << >> ELSE Ev(Head(q)) \o Flatten(Ev, Tail(q))

InnerItemEvents(it) == IF it.k = "text" THEN << DataEv(it.s) >> ELSE << StartEv(it.s) >>

InnerCellEvents(c) ==
    << StartEv(c.kind) >> \o Flatten(InnerItemEvents, c.items) \o << EndEv(c.kind) >>

InnerRowEvents(r) ==
    << StartEv("tr"), DataEv("\n") >> \o Flatten(InnerCellEvents, r) \o << EndEv("tr") >>

InnerTableEvents(t) ==
    << StartEv("table"), StartEv("tbody") >> \o Flatten(InnerRowEvents, t)
        \o << EndEv("tbody"), EndEv("table") >>

ItemEvents(it) ==
    IF it.k = "text" THEN << DataEv(it.s) >>
    ELSE IF it.k = "tag" THEN << StartEv(it.s) >>
    ELSE InnerTableEvents(it.rows)

CellEvents(c) == << StartEv(c.kind) >> \o Flatten(ItemEvents, c.items) \o << EndEv(c.kind) >>

RowEvents(r) == << StartEv("tr"), DataEv("\n") >> \o Flatten(CellEvents, r) \o << EndEv("tr") >>

TableEvents(t) ==
    << StartEv("table"), StartEv("tbody") >> \o Flatten(RowEvents, t)
        \o << EndEv("tbody"), EndEv("table"), DataEv("prose") >>

\* the events html.parser raises on the markup of document d
DocEvents(d) == << DataEv("prose") >> \o Flatten(TableEvents, d)

\* extract_tables(html) on the markup of a well-formed document
InitParser ==
    /\ doc \in Docs(MaxElems)
    /\ feed = DocEvents(doc)
    /\ NewParser
    /\ p_pc = "feed"
    /\ IdleClassify /\ IdleClean /\ IdleGuess /\ IdleMain

SpecParser == InitParser /\ [][NextParser]_vars

(***************************************************************************)
(* Any markup: html.parser raises its callbacks in whatever order the tags *)
(* come, matched or not.                                                   *)
(***************************************************************************)
\* the longest sequence of events fed to the parser
MaxEvents == 5

EventAlphabet ==
    { StartEv("table"), EndEv("table"), StartEv("tr"), EndEv("tr"), StartEv("td"), EndEv("td"),
      DataEv("x") }

\* </table><table><tr><td>x</td></tr></table>
StrayCloseThenTable ==
    << EndEv("table"), StartEv("table"), StartEv("tr"), StartEv("td"), DataEv("x"), EndEv("td"),
       EndEv("tr"), EndEv("table") >>

\* the sequences of at most m events, and the stray closing tag before a table
EventSeqs(m) == UNION { [1..n -> EventAlphabet] : n \in 0..m } \cup { StrayCloseThenTable }

\* extract_tables(html) on any markup; doc keeps the events of the whole markup
InitEvents ==
    /\ doc \in EventSeqs(MaxEvents)
    /\ feed = doc
    /\ NewParser
    /\ p_pc = "feed"
    /\ IdleClassify /\ IdleClean /\ IdleGuess /\ IdleMain

SpecEvents == InitEvents /\ [][NextParser]_vars

(***************************************************************************)
(* Properties of the row classifier, checked under SpecClassify.           *)
(***************************************************************************)
Returned == c_pc = "returned"

Accepted == Returned /\ c_entry # None

\* the claimant text of a row of at least 3 cells
ClaimantText(r) == clean(r[2])

\* the prediction field of a row of at least 3 cells
PredictionText(r) == IF Len(r) >= 4 THEN clean(r[3]) ELSE clean(r[2])

RavisRow ==
    << "1999", "Ravi Batra", "The US economy will collapse by 2000 due to debt",
       "It did not happen" >>

RavisCall == Returned /\ c_row = RavisRow /\ c_hint = "" /\ c_known = {}

\* C4 as stated: the row of the scenario, with an empty hint and no known ids, is
\* accepted with year 1999, source "Ravi Batra", the prediction as given, reality
\* "It did not happen" and category "Economic Collapse".
C4_ScenarioAsStated ==
    RavisCall =>
        /\ c_entry # None
        /\ c_entry.year = 1999
        /\ c_entry.source = "Ravi Batra"
        /\ c_entry.prediction = "The US economy will collapse by 2000 due to debt"
        /\ c_entry.reality = "It did not happen"
        /\ c_entry.category = "Economic Collapse"

\* C4 amended: the same call is accepted with year 1999, source "Ravi Batra", the
\* prediction as given and category "Economic Collapse", and its reality is the
\* synthesized sentence naming 2004, the outcome having only 17 characters.
C4_Scenario ==
    RavisCall =>
        /\ c_entry # None
        /\ c_entry.year = 1999
        /\ c_entry.source = "Ravi Batra"
        /\ c_entry.prediction = "The US economy will collapse by 2000 due to debt"
        /\ c_entry.reality = "The predicted event did not occur as described by 2004."
        /\ c_entry.category = "Economic Collapse"

C4_Witness == RavisCall /\ c_entry # None

\* C5 as stated: an accepted row's source is the cleaned claimant whenever the
\* claimant differs from the prediction, and is "Unknown" exactly when the two
\* are equal; every accepted 3-cell row gets "Unknown".
C5_SourceAsStated ==
    Accepted =>
        /\ ClaimantText(c_row) # PredictionText(c_row) => c_entry.source = ClaimantText(c_row)
        /\ c_entry.source = "Unknown" <=> ClaimantText(c_row) = PredictionText(c_row)
        /\ Len(c_row) = 3 => c_entry.source = "Unknown"

\* C5 amended: an accepted row's source is the cleaned claimant when the claimant
\* is not empty and differs from the prediction, and "Unknown" otherwise; every
\* accepted 3-cell row gets "Unknown".
C5_Source ==
    Accepted =>
        /\ (ClaimantText(c_row) # "" /\ ClaimantText(c_row) # PredictionText(c_row))
                => c_entry.source = ClaimantText(c_row)
        /\ (ClaimantText(c_row) = "" \/ ClaimantText(c_row) = PredictionText(c_row))
                => c_entry.source = "Unknown"
        /\ Len(c_row) = 3 => c_entry.source = "Unknown"

\* an accepted row whose claimant cell is empty
C5_Witness == Accepted /\ Len(c_row) >= 4 /\ ClaimantText(c_row) = ""

\* the whole-word tokens of a text: the maximal runs of word characters
RECURSIVE WordRunEnd(_, _)
WordRunEnd(s, i) == IF i <= Len(s) /\ IsWord(Char(s, i)) THEN WordRunEnd(s, i + 1) ELSE i - 1

TokenStarts(s) == {i \in 1..Len(s) : IsWord(Char(s, i)) /\ (i = 1 \/ ~IsWord(Char(s, i - 1)))}

TokenAt(s, i) == SubSeq(s, i, WordRunEnd(s, i))

IsYearToken(w) ==
    /\ Len(w) = 4
    /\ \A k \in 1..4 : IsDigit(Char(w, k))
    /\ StrToInt(w) >= 1000 /\ StrToInt(w) <= 2029

YearTokenStarts(s) == {i \in TokenStarts(s) : IsYearToken(TokenAt(s, i))}

\* the value of the first year token of a text that holds one
FirstYear(s) ==
    StrToInt(TokenAt(s, CHOOSE i \in YearTokenStarts(s) : \A j \in YearTokenStarts(s) : i <= j))

HeaderWords == { "date", "year", "century", "event", "prediction" }

\* the rejection conditions of the row classifier
Rejectable(r) ==
    \/ Len(r) < 3
    \/ \E w \in HeaderWords : Contains(w, Lower(clean(r[1])))
    \/ clean(r[1]) = ""
    \/ YearTokenStarts(clean(r[1])) = {}
    \/ FirstYear(clean(r[1])) >= 2026
    \/ Len(PredictionText(r)) < 15

\* C7: row_to_entry returns a rejection exactly when the row has fewer than 3
\* cells, or its first cleaned cell names a header, is empty, holds no whole-word
\* year token in 1000-2029 or holds a first such token >= 2026, or its prediction
\* field has fewer than 15 characters; otherwise it returns a Record, whose
\* prediction has at least 15 characters.  The header row of the scenario is
\* rejected.
C7_RejectionRule ==
    Returned =>
        /\ c_entry = None <=> Rejectable(c_row)
        /\ c_entry # None =>
              (c_entry.prediction = PredictionText(c_row) /\ Len(c_entry.prediction) >= 15)
        /\ c_row = << "Year", "Prediction", "Outcome" >> => c_entry = None

\* a row rejected for its prediction alone: 15 characters would have passed
C7_Witness ==
    /\ Returned /\ c_entry = None /\ Len(c_row) >= 3
    /\ YearTokenStarts(clean(c_row[1])) # {}
    /\ FirstYear(clean(c_row[1])) < 2026
    /\ Len(PredictionText(c_row)) = 14

\* C8: every accepted Record has 1000 <= year < 2026, whatever the first cell
\* holds, and a row whose first cell is "2030" is rejected.
C8_YearBound ==
    Returned =>
        /\ c_entry # None => (c_entry.year >= 1000 /\ c_entry.year < 2026)
        /\ (Len(c_row) >= 1 /\ c_row[1] = "2030") => c_entry = None

\* a first cell with two year tokens, the later one not in the past
C8_Witness == Accepted /\ c_row[1] = "1999 or 2027" /\ c_entry.year = 1999

\* the base slug of a row of at least 3 cells whose first cell holds a year
BaseSlug(r) ==
    slugify(ClaimantText(r) \o "-" \o Prefix(PredictionText(r), 20), FirstYear(clean(r[1])))

Suffixed(base, n) == base \o "-" \o IntToStr(n)

\* C9: the id is the base slug when that is not a known id; otherwise it is
\* base-n for the least n >= 1 such that base-n is not a known id.
C9_CollisionRule ==
    Accepted =>
        LET base == BaseSlug(c_row)
        IN  IF base \notin c_known
            THEN c_entry.id = base
            ELSE \E n \in 1..(Cardinality(c_known) + 1) :
                    /\ c_entry.id = Suffixed(base, n)
                    /\ Suffixed(base, n) \notin c_known
                    /\ \A m \in 1..(n - 1) : Suffixed(base, m) \in c_known

\* the base and the suffix -1 are both taken: the id gets the suffix -2
C9_Witness ==
    /\ Accepted
    /\ BaseSlug(c_row) \in c_known
    /\ Suffixed(BaseSlug(c_row), 1) \in c_known
    /\ c_entry.id = Suffixed(BaseSlug(c_row), 2)

(***************************************************************************)
(* Properties of the text cleaner, checked under SpecClean.                *)
(***************************************************************************)
\* the last position of a citation marker starting at position i of s, or 0: a
\* bracketed integer, a bracketed "note <integer>", a bracketed lowercase letter
MarkerEnd(s, i) ==
    IF i > Len(s) \/ Char(s, i) # "[" THEN 0
    ELSE IF DigitRunEnd(s, i + 1) >= i + 1 /\ DigitRunEnd(s, i + 1) < Len(s)
            /\ Char(s, DigitRunEnd(s, i + 1) + 1) = "]"
         THEN DigitRunEnd(s, i + 1) + 1
    ELSE IF i + 5 <= Len(s) /\ SubSeq(s, i + 1, i + 5) = "note "
            /\ DigitRunEnd(s, i + 6) >= i + 6 /\ DigitRunEnd(s, i + 6) < Len(s)
            /\ Char(s, DigitRunEnd(s, i + 6) + 1) = "]"
         THEN DigitRunEnd(s, i + 6) + 1
    ELSE IF i + 2 <= Len(s) /\ IsIn(LowerLetters, Char(s, i + 1)) /\ Char(s, i + 2) = "]"
         THEN i + 2
    ELSE 0

RECURSIVE WithoutMarkers(_, _)
\* s from position i on, with every marker occurring in it removed
WithoutMarkers(s, i) ==
    IF i > Len(s) THEN ""
    ELSE IF MarkerEnd(s, i) > 0 THEN WithoutMarkers(s, MarkerEnd(s, i) + 1)
    ELSE Char(s, i) \o WithoutMarkers(s, i + 1)

RECURSIVE Collapsed(_)
\* s with every run of whitespace replaced by one space
Collapsed(s) ==
    IF Len(s) = 0 THEN ""
    ELSE IF IsSpace(Head(s))
         THEN IF Len(s) > 1 /\ IsSpace(Char(s, 2)) THEN Collapsed(Tail(s)) ELSE " " \o Collapsed(Tail(s))
    ELSE Head(s) \o Collapsed(Tail(s))

\* C6: clean removes every occurrence in the input of a bracketed integer, of a
\* bracketed "note <integer>" and of a bracketed single lowercase letter (any of
\* a-z), then collapses every whitespace run to one space and trims; the text
\* outside the markers is unchanged.
C6_CleanAsStated ==
    t_pc = "returned" => t_out = Strip(Collapsed(WithoutMarkers(t_text, 1)))

(***************************************************************************)
(* Properties of the category guesser, checked under SpecGuess.            *)
(***************************************************************************)
\* a keyword of some category occurs in the text, letter case ignored
SomeKeywordOccurs(text) ==
    \E c \in 1..Len(CATEGORY_KEYWORDS) :
        \E k \in 1..Len(CATEGORY_KEYWORDS[c]) : Contains(CATEGORY_KEYWORDS[c][k], Lower(text))

EightCategories ==
    { "Economic Collapse", "Tech Apocalypse", "Environmental Doom", "Political Catastrophe",
      "Health Crisis", "Social Breakdown", "Food & Resource Scarcity", "War & Conflict" }

\* C10: guess_category returns one of the eight categories for every text, the
\* empty one included, and "Political Catastrophe" whenever no keyword of any
\* category occurs in the (lowercased) text.
C10_CategoryTotal ==
    g_pc = "returned" =>
        /\ g_out \in EightCategories
        /\ ~SomeKeywordOccurs(g_text) => g_out = "Political Catastrophe"

\* the empty text has been classified
C10_Witness == g_pc = "returned" /\ g_text = "" /\ g_out = "Political Catastrophe"

(***************************************************************************)
(* Properties of the run, checked under Spec.                              *)
(***************************************************************************)
\* the pre-existing entries followed by the entries accepted so far
StoreThenNew == IF writes > 0 THEN db ELSE db \o new_entries

\* C1: the ids of the accepted records are pairwise distinct and differ from
\* every pre-existing id, at every step of the run.
C1_UniqueIds ==
    /\ \A i, j \in 1..Len(StoreThenNew) : i # j => StoreThenNew[i].id # StoreThenNew[j].id
    /\ existing_ids = IdsOf(StoreThenNew)

\* three rows of one base slug accepted on top of a store that holds that base
C1_Witness ==
    /\ Len(new_entries) = 3
    /\ \A i \in 1..3 : new_entries[i].prediction = "the end is nigh"
    /\ "2001-bo-the-end-is-nigh" \in IdsOf(file)
    /\ pc = "done"

(***************************************************************************)
(* Properties of the table extractor, checked under SpecParser.            *)
(***************************************************************************)
HoldsTable(c) == \E i \in 1..Len(c.items) : c.items[i].k = "table"

\* no cell of the document holds a nested table
Flat(d) == \A i \in 1..Len(d) : \A j \in 1..Len(d[i]) : \A k \in 1..Len(d[i][j]) : ~HoldsTable(d[i][j][k])

RECURSIVE OwnFragments(_)
\* the text fragments of a cell's items that are not whitespace, each trimmed
OwnFragments(items) ==
    IF Len(items) = 0 THEN << >>
    ELSE IF Head(items).k = "text" /\ Strip(Head(items).s) # ""
         THEN << Strip(Head(items).s) >> \o OwnFragments(Tail(items))
    ELSE OwnFragments(Tail(items))

RECURSIVE SpaceJoined(_)
SpaceJoined(q) ==
    IF Len(q) = 0 THEN ""
    ELSE IF Len(q) = 1 THEN q[1]
    ELSE q[1] \o " " \o SpaceJoined(Tail(q))

RECURSIVE RowsWithCells(_)
\* the rows of a table that have at least one cell, in order
RowsWithCells(t) ==
    IF Len(t) = 0 THEN << >>
    ELSE IF Len(Head(t)) > 0 THEN << Head(t) >> \o RowsWithCells(Tail(t))
    ELSE RowsWithCells(Tail(t))

\* C3: for well-formed markup without nested tables, extract_tables returns one
\* table per table of the document, in order; each holds its rows in order, less
\* the rows without cells; each row holds one string per th or td cell in order;
\* each string is the cell's non-whitespace text fragments, trimmed and joined by
\* single spaces.
C3_FlatTables ==
    (p_pc = "returned" /\ Flat(doc)) =>
        /\ Len(p_tables) = Len(doc)
        /\ \A i \in 1..Len(doc) :
              LET rows == RowsWithCells(doc[i])
              IN  /\ Len(p_tables[i]) = Len(rows)
                  /\ \A j \in 1..Len(rows) :
                        /\ Len(p_tables[i][j]) = Len(rows[j])
                        /\ \A k \in 1..Len(rows[j]) :
                              p_tables[i][j][k] = SpaceJoined(OwnFragments(rows[j][k].items))

\* two tables returned, the first with a row of cells after a row without any
C3_Witness ==
    /\ p_pc = "returned" /\ Flat(doc) /\ Len(doc) = 2
    /\ Len(doc[1]) = 2 /\ Len(doc[1][1]) = 0
    /\ p_tables = << << << "b c d" >> >>, << >> >>

\* the document is one table, a cell of which holds a nested table with a row of
\* cells
NestedOnce(d) ==
    /\ Len(d) = 1
    /\ \E j \in 1..Len(d[1]) : \E k \in 1..Len(d[1][j]) :
          \E n \in 1..Len(d[1][j][k].items) :
              /\ d[1][j][k].items[n].k = "table"
              /\ \E r \in 1..Len(d[1][j][k].items[n].rows) : Len(d[1][j][k].items[n].rows[r]) > 0

\* C2: for well-formed markup with a table nested inside a cell of an outer table,
\* extract_tables returns exactly one table, whose rows are the outer table's rows
\* in order, cell for cell: no row or cell of the inner table is emitted as a row
\* of the outer table or as a separate table.  (What text the cell that holds the
\* inner table gets is not part of this property.)
C2_NestedTable ==
    (p_pc = "returned" /\ NestedOnce(doc)) =>
        /\ Len(p_tables) = 1
        /\ LET rows == RowsWithCells(doc[1])
           IN  /\ Len(p_tables[1]) = Len(rows)
               /\ \A j \in 1..Len(rows) :
                     /\ Len(p_tables[1][j]) = Len(rows[j])
                     /\ \A k \in 1..Len(rows[j]) :
                           ~HoldsTable(rows[j][k]) =>
                              p_tables[1][j][k] = SpaceJoined(OwnFragments(rows[j][k].items))

\* a nested table with a row of cells has been parsed and one table returned
C2_Witness == p_pc = "returned" /\ NestedOnce(doc) /\ Len(p_tables) = 1 /\ Len(p_tables[1]) = 1

(***************************************************************************)
(* The run: failures, the limit, the write, termination.                   *)
(***************************************************************************)
\* the target of index i was attempted: main printed the outcome of its fetch
Attempted(i) ==
    \E k \in 1..Len(stdout) :
        stdout[k] \in { FetchedLine(targets[i].title), ErrorLine(targets[i].title) }

\* this step prints the error line of the current target
FailureStep ==
    /\ pc = "fetch" /\ ti <= Len(targets)
    /\ Len(stdout') = Len(stdout) + 1
    /\ stdout'[Len(stdout')] = ErrorLine(targets[ti].title)

\* the targets loop was left
LoopLeft == pc \in { "report", "done" }

\* C11: a failed fetch (or extraction) of one target adds no record, leaves the
\* accepted records and the known ids as they were and moves on to the next target;
\* the loop over the targets is left only when every target was attempted or the
\* limit was reached, whatever targets failed.
C11_FailureSkips ==
    /\ [][FailureStep => /\ new_entries' = new_entries
                          /\ existing_ids' = existing_ids
                          /\ pc' = "fetch"
                          /\ ti' = ti + 1]_vars
    /\ [](\A i \in 1..Len(targets) :
              (i < ti \/ (LoopLeft /\ ~LimitReached(new_entries))) => Attempted(i))

\* the first target failed and the second one yielded a record
C11_Witness ==
    /\ pc = "rows" /\ ti = 2
    /\ stdout[1] = ErrorLine(targets[1].title)
    /\ Len(new_entries) >= 1

\* C12: with a positive limit the number of new records never exceeds the limit, and
\* from the moment the limit is reached no row is classified, no record is added and
\* no target is fetched: the run only reports; with limit 0 no cap applies.
C12_LimitCap ==
    /\ [](limit > 0 => Len(new_entries) <= limit)
    /\ [][(limit > 0 /\ Len(new_entries) >= limit)
             => /\ new_entries' = new_entries
                /\ budget' = budget
                /\ ti' = ti
                /\ pc' \in { "report", "done" }
                /\ \A k \in 1..Len(stdout') :
                      k > Len(stdout) => \A i \in 1..Len(targets) :
                          stdout'[k] \notin { FetchedLine(targets[i].title),
                                              ErrorLine(targets[i].title) }]_vars

\* the limit of 1 ended the run on the first target with rows still to come
C12_Witness ==
    /\ limit = 1 /\ Len(new_entries) = 1 /\ pc = "done"
    /\ ti = 1 /\ budget > 0 /\ LimitLine \in { stdout[k] : k \in 1..Len(stdout) }

\* without a limit the run accepted more records than any limit of Limits allows
C12_Unlimited == limit = 0 /\ Len(new_entries) = MaxRows /\ pc = "done"

\* C13: the store is written at most once, by the step that ends the run, hence after
\* all classification; it is written only with writing enabled and at least one
\* accepted record, and the written collection is the file's entries followed by the
\* accepted records in acceptance order; until then, and for good in a dry run or
\* when nothing was accepted, the file holds the entries the run loaded.
C13_WriteOnce ==
    /\ [](writes <= 1)
    /\ [](pc # "idle" /\ writes = 0 => file \in Stores /\ IdsOf(file) \subseteq existing_ids)
    /\ [](pc = "done" /\ (~write \/ new_entries = << >>) => writes = 0)
    /\ [][(writes' # writes \/ file' # file)
             => /\ writes = 0 /\ writes' = 1
                /\ pc = "report" /\ pc' = "done"
                /\ write /\ new_entries # << >>
                /\ file' = file \o new_entries]_vars

\* a run with --write stored two new records behind the entries it had loaded
C13_Witness ==
    /\ pc = "done" /\ writes = 1 /\ Len(new_entries) = 2
    /\ Len(file) = 4 /\ SubSeq(file, 3, 4) = new_entries

\* a dry run that accepted a record left the file as it was
C13_DryRun == pc = "done" /\ ~write /\ new_entries # << >> /\ writes = 0 /\ file \in Stores

\* the run ended and its report names the number of records it accepted
Reported ==
    /\ pc = "done"
    /\ Len(stdout) >= 2
    /\ stdout[Len(stdout) - 1] = FoundLine(Len(new_entries))

\* C17: every run, whatever targets fail, whatever tables and rows the documents hold
\* and whatever ids the store holds, comes to its end and reports the number of
\* records it accepted, zero included; the collision loop of each row ends as well,
\* since each classification is one step that yields its entry.
C17_Terminates == <>Reported

\* a run in which every fetch failed ended with a report of zero records
C17_Witness ==
    /\ Reported /\ new_entries = << >>
    /\ \A i \in 1..Len(targets) : ErrorLine(targets[i].title) \in { stdout[k] : k \in 1..Len(stdout) }

\* a run ended after a row had gone through the collision loop twice
C17_CollisionLoop ==
    /\ Reported
    /\ \E k \in 1..Len(new_entries) : new_entries[k].id = "2001-bo-the-end-is-nigh-2"

(***************************************************************************)
(* The classifier: reality, the shape of ids, repeated calls.              *)
(***************************************************************************)
\* the outcome field of a row of at least 3 cells
OutcomeText(r) == IF Len(r) >= 4 THEN clean(r[4]) ELSE clean(r[3])

\* the outcomes that carry no information, in lower case
LowInformation == { "no", "yes", "none", "n/a", EM_DASH, "-" }

FallbackYear(year) == IF year < 2020 THEN year + 5 ELSE 2025

Synthesized(year) ==
    "The predicted event did not occur as described by " \o IntToStr(FallbackYear(year)) \o "."

\* C15: the reality of an accepted record is the cleaned outcome text when that is
\* longer than 20 characters and is not, in lower case, one of the low-information
\* outcomes; otherwise it is the synthesized sentence naming year + 5 for a year
\* before 2020 and 2025 for a later year.
C15_Reality ==
    Accepted =>
        c_entry.reality =
            IF Len(OutcomeText(c_row)) > 20 /\ Lower(OutcomeText(c_row)) \notin LowInformation
            THEN OutcomeText(c_row)
            ELSE Synthesized(c_entry.year)

\* a record of the year 2020 or later with an outcome of exactly 20 characters got
\* the sentence naming 2025
C15_Witness ==
    /\ Accepted /\ c_entry.year >= 2020
    /\ Len(OutcomeText(c_row)) = 20
    /\ c_entry.reality = "The predicted event did not occur as described by 2025."

\* a cleaned outcome of more than 20 characters was kept as the reality
C15_Kept ==
    /\ Accepted /\ Len(c_row) >= 4 /\ c_row[4] = "Nothing[1] of the  kind took place"
    /\ c_entry.reality = "Nothing of the kind took place"

RECURSIVE AlnumOnly(_)
\* the letters a-z and the digits of s, in order
AlnumOnly(s) ==
    IF Len(s) = 0 THEN ""
    ELSE (IF IsIn(LowerLetters \o Digits, Char(s, 1)) THEN Char(s, 1) ELSE "")
            \o AlnumOnly(SubSeq(s, 2, Len(s)))

\* s is a hyphen followed by decimal digits
IsSuffix(s) == Len(s) >= 2 /\ Char(s, 1) = "-" /\ \A i \in 2..Len(s) : IsIn(Digits, Char(s, i))

\* at most the first n characters of s
FirstChars(s, n) == IF Len(s) <= n THEN s ELSE SubSeq(s, 1, n)

\* the basis of the id of a row of at least 3 cells
Basis(r) == ClaimantText(r) \o "-" \o FirstChars(PredictionText(r), 20)

\* id is a slug: letters a-z, digits and single hyphens, none at either end
IsSlug(id) ==
    /\ Len(id) > 0
    /\ \A i \in 1..Len(id) : IsIn(LowerLetters \o Digits \o "-", Char(id, i))
    /\ Char(id, 1) # "-" /\ Char(id, Len(id)) # "-"
    /\ \A i \in 1..(Len(id) - 1) : ~(Char(id, i) = "-" /\ Char(id, i + 1) = "-")

\* C16: the id of an accepted record, collision suffix included, is a non-empty slug of
\* the characters a-z, 0-9 and hyphen, with no hyphen at either end and no two
\* hyphens in a row, and begins with the digits of the record's year; the part before
\* the suffix holds, apart from hyphens, the year followed by the letters and digits
\* of the lowercased first 40 characters of the basis.
C16_IdIsSlug ==
    Accepted =>
        LET id == c_entry.id
            digits == IntToStr(c_entry.year)
        IN  /\ IsSlug(id)
            /\ SubSeq(id, 1, Len(digits)) = digits
            /\ \E k \in 1..Len(id) :
                  /\ k = Len(id) \/ IsSuffix(SubSeq(id, k + 1, Len(id)))
                  /\ IsSlug(SubSeq(id, 1, k))
                  /\ AlnumOnly(SubSeq(id, 1, k))
                        = digits \o AlnumOnly(Lower(FirstChars(Basis(c_row), 40)))

\* a basis of more than 40 characters ending, once cut, in a character that is no
\* letter or digit gave an id without the text beyond the cut
C16_Witness ==
    /\ Accepted /\ Len(Basis(c_row)) > 40
    /\ c_entry.id = "1999-the-world-will-end-in-fire-the-us-econom"

\* an id with a collision suffix is a slug too
C16_Suffixed ==
    /\ Accepted /\ c_entry.id = "2001-bo-the-end-is-nigh-2"

C14_RejectedAgain == c_pc = "again" /\ c_entry = None

(***************************************************************************)
(* The category guesser: the largest count, the first of equals.           *)
(***************************************************************************)
\* the enumeration order of the categories
CategoryOrder ==
    << "Economic Collapse", "Tech Apocalypse", "Environmental Doom", "Political Catastrophe",
       "Health Crisis", "Social Breakdown", "Food & Resource Scarcity", "War & Conflict" >>

\* the phrase occurs in the text at some position
Occurs(phrase, text) ==
    \E i \in 1..(Len(text) - Len(phrase) + 1) : SubSeq(text, i, i + Len(phrase) - 1) = phrase

\* the number of keyword phrases of the n-th category that occur in the text
KeywordCount(n, text) ==
    Cardinality({ k \in 1..Len(CATEGORY_KEYWORDS[n]) : Occurs(CATEGORY_KEYWORDS[n][k], text) })

RECURSIVE CountsFrom(_, _)
\* the keyword counts of the categories n, n + 1, ..., in enumeration order
CountsFrom(n, text) ==
    IF n > Len(CategoryOrder) THEN << >>
    ELSE << KeywordCount(n, text) >> \o CountsFrom(n + 1, text)

\* out is the category of the largest count and, that count being positive, the first
\* of the categories that have it
IsFirstOfLargest(counts, out) ==
    \E o \in 1..Len(CategoryOrder) :
        /\ out = CategoryOrder[o]
        /\ \A n \in 1..Len(CategoryOrder) : counts[n] <= counts[o]
        /\ counts[o] > 0 => \A n \in 1..(o - 1) : counts[n] < counts[o]

\* C18: the category guess_category returns has the largest keyword count of the
\* eight categories, and when the largest count is positive and shared it is the
\* first, in enumeration order, of the categories that have it.
C18_MaxCountFirst ==
    g_pc = "returned" =>
        LET lowered == Lower(g_text)
        IN  IsFirstOfLargest(CountsFrom(1, lowered), g_out)

\* "war" counts for Political Catastrophe and "nuclear war" for War & Conflict: the
\* category listed first was returned
C18_Witness ==
    /\ g_pc = "returned" /\ g_text = "nuclear war"
    /\ KeywordCount(4, "nuclear war") = 1 /\ KeywordCount(8, "nuclear war") = 1
    /\ g_out = "Political Catastrophe"

\* a category with two keywords in the text won over one with a single keyword
C18_TwoBeatOne ==
    /\ g_pc = "returned" /\ g_out = "Economic Collapse"
    /\ KeywordCount(1, Lower(g_text)) = 2
    /\ \E n \in 2..8 : KeywordCount(n, Lower(g_text)) = 1

(***************************************************************************)
(* The table extractor on any markup, and the text of its cells.           *)
(***************************************************************************)
\* C19: whatever tag events are fed, closing table tags without an opening one
\* included, the depth counter is never negative, so that a table opened after them
\* is entered at depth 1 and returned.
C19_DepthNeverNegative ==
    /\ depth >= 0
    /\ (p_pc = "returned" /\ doc = StrayCloseThenTable) => p_tables = << << << "x" >> >> >>

\* C20: the text of every cell of a returned table is made of the text fragments
\* found at depth 1 between that cell's opening and closing tags and of nothing else:
\* no text of a table nested in the cell is part of it.
C20_OwnTextOnly ==
    p_pc = "returned" =>
        /\ Len(p_tables) = Len(doc)
        /\ \A i \in 1..Len(doc) :
              LET rows == RowsWithCells(doc[i])
              IN  /\ Len(p_tables[i]) = Len(rows)
                  /\ \A j \in 1..Len(rows) :
                        /\ Len(p_tables[i][j]) = Len(rows[j])
                        /\ \A k \in 1..Len(rows[j]) :
                              p_tables[i][j][k] = SpaceJoined(OwnFragments(rows[j][k].items))
====
